---- MODULE Spec2Model ----
(***************************************************************************)
(* A model of src/analyzer.py: the CaloLogAnalyzer pipeline                *)
(*   load_logs -> parse_all_logs -> categorize_logs -> extract_transactions*)
(*   -> detect_overdrafts -> analyze_user_patterns -> export_results.      *)
(*                                                                         *)
(* Text is modelled as TLA+ strings and every pattern match of the source  *)
(* (substring tests, re.match, re.search, str.split, str.strip,            *)
(* str.lower, float) is computed character by character.                   *)
(*                                                                         *)
(* Representation choices:                                                 *)
(*  - a nullable value is None (the empty tuple) or Some(v) = <<v>>;       *)
(*    None stands for Python None, NaN and NaT alike;                      *)
(*  - a pandas DataFrame is [isNone, columns, rows]: the set of column     *)
(*    names and the sequence of rows (functions from column name to        *)
(*    nullable value); pd.DataFrame([]) has no columns;                    *)
(*  - a float is an integer number of 10^-FracDigits units;                *)
(*  - a datetime is the tuple <<Y, M, D, h, m, s, ns>> ordered             *)
(*    lexicographically (chronological order for UTC instants).            *)
(***************************************************************************)
EXTENDS FiniteSets, Integers, Sequences, TLC

VARIABLES
    pc,                \* position inside run_complete_analysis
    error,             \* the exception that ended the run, or None
    raw_logs,          \* self.raw_logs
    parsed_logs,       \* self.parsed_logs
    transactions,      \* self.transactions
    analysis_results,  \* self.analysis_results
    overdrafts,        \* the value last returned by detect_overdrafts
    user_analysis,     \* the value last returned by analyze_user_patterns
    output             \* the CSV files written under OUTPUT_DIR: name -> table

vars == <<pc, error, raw_logs, parsed_logs, transactions, analysis_results,
          overdrafts, user_analysis, output>>

-----------------------------------------------------------------------------
(* Bounds of the model *)

\* lines in the log archive read by load_logs
MaxLines == 2
\* decimal places carried by a float
FracDigits == 2
\* pieces a raw line of SpecParse is assembled from
MaxPieces == 3
\* phrases a message of SpecCategorize is assembled from
MaxPhrases == 2

-----------------------------------------------------------------------------
(* Nullable values and tables *)

None == <<>>
Some(v) == <<v>>
notna(x) == x # None
isna(x) == x = None

NoneTable == [isNone |-> TRUE, columns |-> {}, rows |-> <<>>]

\* pd.DataFrame(list of dicts): the columns are the keys of the dicts
DataFrame(data) ==
    [isNone |-> FALSE,
     columns |-> IF data = <<>> THEN {} ELSE DOMAIN data[1],
     rows |-> data]

empty(df) == df.rows = <<>>

Range(s) == {s[i] : i \in DOMAIN s}

RECURSIVE SumSeq(_)
SumSeq(s) == IF s = <<>> THEN 0 ELSE Head(s) + SumSeq(Tail(s))

-----------------------------------------------------------------------------
(* Strings *)

Char(s, i) == SubSeq(s, i, i)

\* the set of the characters of a string
CharsOf(s) == {Char(s, i) : i \in 1..Len(s)}

DigitString == "0123456789"
UpperCase == "ABCDEFGHIJKLMNOPQRSTUVWXYZ"
LowerCase == "abcdefghijklmnopqrstuvwxyz"
\* \d
Digits == CharsOf(DigitString)
\* the characters str.strip() removes
Whitespace == CharsOf(" \t\n\r\f")

RECURSIVE IndexIn(_, _, _)
\* 1-based index of character c in s at or after i; 0 when absent
IndexIn(c, s, i) ==
    IF i > Len(s) THEN 0
    ELSE IF Char(s, i) = c THEN i
    ELSE IndexIn(c, s, i + 1)

InClass(c, class) == c \in class
IsDigit(c) == InClass(c, Digits)

\* k == s[i : i + len(k)]
StartsAt(s, i, k) ==
    /\ i + Len(k) - 1 <= Len(s)
    /\ SubSeq(s, i, i + Len(k) - 1) = k

\* the positions of s where k starts
Occurrences(s, k) ==
    LET n == Len(k)
    IN  {i \in 1..(Len(s) - n + 1) : SubSeq(s, i, i + n - 1) = k}

\* Python's `k in s`
Contains(s, k) == Occurrences(s, k) # {}

\* the least element of a non-empty set of integers
Min(S) == CHOOSE i \in S : \A j \in S : i <= j

RECURSIVE RunEnd(_, _, _)
\* index of the last character of the maximal run of `class` characters of s
\* that starts at i (i - 1 when the run is empty)
RunEnd(s, i, class) ==
    IF i <= Len(s) /\ InClass(Char(s, i), class)
    THEN RunEnd(s, i + 1, class)
    ELSE i - 1

RECURSIVE NotRunEnd(_, _, _)
\* the same for the characters outside `class`
NotRunEnd(s, i, class) ==
    IF i <= Len(s) /\ ~InClass(Char(s, i), class)
    THEN NotRunEnd(s, i + 1, class)
    ELSE i - 1

RECURSIVE LastNotIn(_, _, _)
LastNotIn(s, j, class) ==
    IF j >= 1 /\ InClass(Char(s, j), class)
    THEN LastNotIn(s, j - 1, class)
    ELSE j

\* str.strip()
strip(s) ==
    LET a == RunEnd(s, 1, Whitespace) + 1
        b == LastNotIn(s, Len(s), Whitespace)
    IN  IF a > b THEN "" ELSE SubSeq(s, a, b)

ToLower == [c \in CharsOf(UpperCase) |-> Char(LowerCase, IndexIn(c, UpperCase, 1))]

LowerChar(c) == IF c \in DOMAIN ToLower THEN ToLower[c] ELSE c

RECURSIVE lower(_)
\* str.lower()
lower(s) == IF s = "" THEN "" ELSE LowerChar(Head(s)) \o lower(Tail(s))

RECURSIVE split(_, _)
\* str.split(sep) for a one-character separator
split(s, sep) ==
    LET k == IndexIn(sep, s, 1)
    IN  IF k = 0 THEN <<s>>
        ELSE <<SubSeq(s, 1, k - 1)>> \o split(SubSeq(s, k + 1, Len(s)), sep)

RECURSIVE ToInt(_)
\* the number a string of digits denotes
ToInt(s) ==
    IF s = "" THEN 0
    ELSE ToInt(SubSeq(s, 1, Len(s) - 1)) * 10 + (IndexIn(Char(s, Len(s)), DigitString, 1) - 1)

-----------------------------------------------------------------------------
(* parse_log_data *)

\* r"^(\d{4}-\d{2}-\d{2}T\d{2}:\d{2}:\d{2}\.\d+Z)" up to the fraction; a d
\* stands for \d
TimestampHead == "dddd-dd-ddTdd:dd:dd."

MatchesHead(s) ==
    /\ Len(s) >= Len(TimestampHead)
    /\ \A i \in 1..Len(TimestampHead) :
          IF Char(TimestampHead, i) = "d"
          THEN IsDigit(Char(s, i))
          ELSE Char(s, i) = Char(TimestampHead, i)

\* re.match(pattern, log_data): group(1) as Some(text), or None
timestamp_match(log_data) ==
    LET fracStart == Len(TimestampHead) + 1
        fracEnd == RunEnd(log_data, fracStart, Digits)
    IN  IF /\ MatchesHead(log_data)
           /\ fracEnd >= fracStart
           /\ StartsAt(log_data, fracEnd + 1, "Z")
        THEN Some(SubSeq(log_data, 1, fracEnd + 1))
        ELSE None

\* log_data_list[k] if len(log_data_list) > k else None (k is 0-based)
segment(log_data_list, k) ==
    IF Len(log_data_list) > k THEN Some(log_data_list[k + 1]) ELSE None

\* parse_log_data, were it to return nothing for a line without content
parse_log_data_skipping_empty(string_data) ==
    IF isna(string_data) \/ strip(string_data[1]) = "" THEN None
    ELSE LET log_data == strip(string_data[1])
             log_data_list == split(log_data, "\t")
         IN  Some([timestamp |-> timestamp_match(log_data),
                   session_id |-> segment(log_data_list, 1),
                   message_type |-> segment(log_data_list, 2),
                   message |-> segment(log_data_list, 3)])

\* parse_log_data(string_data): None, or Some(the dict it returns)
parse_log_data(string_data) ==
    IF isna(string_data) THEN None
    ELSE LET log_data == strip(string_data[1])
             log_data_list == split(log_data, "\t")
         IN  Some([timestamp |-> timestamp_match(log_data),
                   session_id |-> segment(log_data_list, 1),
                   message_type |-> segment(log_data_list, 2),
                   message |-> segment(log_data_list, 3)])

-----------------------------------------------------------------------------
(* pd.to_datetime *)

IsLeap(y) == (y % 4 = 0 /\ y % 100 # 0) \/ y % 400 = 0

DaysInMonth(y, m) ==
    IF m = 2 THEN (IF IsLeap(y) THEN 29 ELSE 28)
    ELSE IF m \in {4, 6, 9, 11} THEN 30 ELSE 31

RECURSIVE PadRight(_, _)
PadRight(s, n) == IF Len(s) >= n THEN s ELSE PadRight(s \o "0", n)

\* the fields of a text that matched the timestamp pattern
DateFields(ts) ==
    [year |-> ToInt(SubSeq(ts, 1, 4)),
     month |-> ToInt(SubSeq(ts, 6, 7)),
     day |-> ToInt(SubSeq(ts, 9, 10)),
     hour |-> ToInt(SubSeq(ts, 12, 13)),
     minute |-> ToInt(SubSeq(ts, 15, 16)),
     second |-> ToInt(SubSeq(ts, 18, 19)),
     fraction |-> SubSeq(ts, 21, Len(ts) - 1)]

\* whether the text denotes an instant pandas can represent (nanosecond
\* resolution, years 1678..2261)
Convertible(ts) ==
    LET f == DateFields(ts)
    IN  /\ f.year >= 1678 /\ f.year <= 2261
        /\ f.month >= 1 /\ f.month <= 12
        /\ f.day >= 1 /\ f.day <= DaysInMonth(f.year, f.month)
        /\ f.hour <= 23 /\ f.minute <= 59 /\ f.second <= 59
        /\ Len(f.fraction) <= 9

\* the datetime of a convertible text
ToDatetime(ts) ==
    LET f == DateFields(ts)
    IN  <<f.year, f.month, f.day, f.hour, f.minute, f.second,
          ToInt(PadRight(f.fraction, 9))>>

\* pd.to_datetime(column, errors="coerce") never raises
to_datetime_coercing(rows) == FALSE

\* pd.to_datetime(column) raises when a non-null entry cannot be converted
to_datetime_raises(rows) ==
    \E i \in DOMAIN rows :
        notna(rows[i].timestamp) /\ ~Convertible(rows[i].timestamp[1])

\* one entry of pd.to_datetime(column): None becomes NaT
to_datetime(timestamp) ==
    IF isna(timestamp) THEN None ELSE Some(ToDatetime(timestamp[1]))

RECURSIVE LexLess(_, _)
LexLess(a, b) ==
    IF a = <<>> \/ b = <<>> THEN FALSE
    ELSE IF Head(a) # Head(b) THEN Head(a) < Head(b)
    ELSE LexLess(Tail(a), Tail(b))

\* a < b on datetimes
DatetimeLess(a, b) == LexLess(a, b)

-----------------------------------------------------------------------------
(* The log archive *)

T1 == "2024-01-01T10:00:00.123Z"
T2 == "2024-01-02T09:30:00.5Z"
\* the instant of T2, written with another fraction
T2b == "2024-01-02T09:30:00.50Z"
\* matches the pattern, denotes no date
TBad == "2024-13-01T10:00:00.1Z"

Line(ts, session, level, message) ==
    ts \o "\t" \o session \o "\t" \o level \o "\t" \o message

Tx(body) == "Transaction {" \o body \o "}"

ArchiveLines ==
    { Line(T1, "sess-1", "INFO", Tx("\"id\":\"tx1\",\"type\":\"CREDIT\",\"amount\":50.0,\"userBalance\":-5.0,\"userId\":\"u1\"")) \o "\n",
      Line(T2, "sess-1", "INFO", Tx("\"id\":\"tx2\",\"type\":\"DEBIT\",\"amount\":20.5,\"userBalance\":4.5,\"userId\":\"u1\"")),
      Line(T2b, "sess-2", "INFO", Tx("\"id\":\"tx3\",\"type\":\"CREDIT\",\"amount\":10,\"userId\":\"u1\"")),
      Line("-", "sess-2", "INFO", Tx("\"id\":\"tx4\",\"type\":\"REFUND\",\"amount\":1,\"userBalance\":10.0,\"userId\":\"u1\"")),
      Line(T1, "sess-2", "INFO", Tx("\"type\":\"DEBIT\",\"amount\":5,\"userBalance\":-1,\"userId\":\"u2\"")),
      Line(T2, "sess-2", "INFO", "transaction {\"id\":\"tx6\",\"userBalance\":-2.5,\"userId\":\"u2\"}"),
      Line(T1, "sess-3", "INFO", Tx("\"id\":\"tx7\",\"amount\":7,\"userBalance\":9.99")),
      Line(T2, "sess-3", "INFO", Tx("\"id\":\"tx8\",\"type\":\"DEBIT\",\"amount\":2.5,\"userBalance\":0.0,\"userId\":\"u2\"")),
      Line(T1, "sess-3", "INFO", Tx("\"id\":\"tx9\",\"amount\":1.2.3,\"userId\":\"u2\"")),
      Line(TBad, "sess-1", "INFO", "Processing message 17"),
      Line(T2, "sess-1", "INFO", "Processing message failed: ERROR in " \o Tx("\"id\":\"tx10\",\"amount\":3")),
      Line(T1, "sess-1", "INFO", "Overdraft error: Sending Slack notification"),
      T1 \o "\tsess-1\tINFO",
      "  INFO heartbeat",
      Line(T1, "sess-1", "DEBUG", Tx("\"id\":\"tx11\",\"amount\":4")) }

\* what the archive can hold: up to MaxLines lines
Archives == UNION {[1..n -> ArchiveLines] : n \in 0..MaxLines}

-----------------------------------------------------------------------------
(* The pipeline: run_complete_analysis *)

Init ==
    /\ pc = "load_logs"
    /\ error = None
    /\ raw_logs = NoneTable
    /\ parsed_logs = NoneTable
    /\ transactions = NoneTable
    /\ analysis_results = <<>>
    /\ overdrafts = NoneTable
    /\ user_analysis = NoneTable
    /\ output = <<>>

\* the lines load_logs keeps: `if "INFO" in line: append(line.strip())`
all_log_lines(lines) ==
    LET kept == SelectSeq(lines, LAMBDA line : Contains(line, "INFO"))
    IN  [i \in DOMAIN kept |-> strip(kept[i])]

\* pd.DataFrame(all_log_lines, columns=["raw_log"])
RawFrame(values) ==
    [isNone |-> FALSE,
     columns |-> {"raw_log"},
     rows |-> [i \in DOMAIN values |-> [raw_log |-> values[i]]]]

load_logs ==
    /\ pc = "load_logs"
    /\ \E lines \in Archives :
          raw_logs' = RawFrame([i \in DOMAIN all_log_lines(lines) |->
                                   Some(all_log_lines(lines)[i])])
    /\ pc' = "parse_all_logs"
    /\ UNCHANGED <<error, parsed_logs, transactions, analysis_results,
                   overdrafts, user_analysis, output>>

\* the list parse_all_logs collects: `if parsed: parsed_data.append(parsed)`
parsed_data(raw) ==
    LET results == [i \in DOMAIN raw.rows |-> parse_log_data(raw.rows[i].raw_log)]
        kept == SelectSeq(results, LAMBDA parsed : notna(parsed))
    IN  [i \in DOMAIN kept |-> kept[i][1]]

\* df[name] = values, one value per row
WithColumn(df, name, values) ==
    [df EXCEPT !.columns = @ \cup {name},
               !.rows = [i \in DOMAIN @ |-> (name :> values[i]) @@ @[i]]]

\* pd.to_datetime(df["timestamp"])
AddDatetime(df) == [i \in DOMAIN df.rows |-> to_datetime(df.rows[i].timestamp)]

parse_all_logs ==
    /\ pc = "parse_all_logs"
    /\ LET df == DataFrame(parsed_data(raw_logs))
       IN  IF "timestamp" \notin df.columns
           THEN /\ parsed_logs' = df
                /\ error' = Some("KeyError")
                /\ pc' = "failed"
           ELSE IF to_datetime_raises(df.rows)
           THEN /\ parsed_logs' = df
                /\ error' = Some("ValueError")
                /\ pc' = "failed"
           ELSE /\ parsed_logs' = WithColumn(df, "datetime", AddDatetime(df))
                /\ error' = error
                /\ pc' = "categorize_logs"
    /\ UNCHANGED <<raw_logs, transactions, analysis_results,
                   overdrafts, user_analysis, output>>

-----------------------------------------------------------------------------
(* categorize_logs *)

\* categorize_message, were the error rule tested before the transaction rule
categorize_message_error_first(msg) ==
    IF isna(msg) THEN "other"
    ELSE LET msg_lower == lower(msg[1])
         IN  IF Contains(msg_lower, "processing message") THEN "processing_message"
             ELSE IF Contains(msg_lower, "start syncing the balance") THEN "balance_sync_start"
             ELSE IF Contains(msg_lower, "balance is already synced") THEN "balance_already_synced"
             ELSE IF Contains(msg_lower, "skipping the balance sync") THEN "balance_sync_skip"
             ELSE IF Contains(msg_lower, "error") \/ Contains(msg_lower, "failed") THEN "error"
             ELSE IF Contains(msg_lower, "transaction {") THEN "transaction"
             ELSE IF Contains(msg_lower, "sending slack notification") THEN "slack_notification"
             ELSE IF Contains(msg_lower, "overdraft") THEN "overdraft"
             ELSE "other"

categorize_message(msg) ==
    IF isna(msg) THEN "other"
    ELSE LET msg_lower == lower(msg[1])
         IN  IF Contains(msg_lower, "processing message") THEN "processing_message"
             ELSE IF Contains(msg_lower, "start syncing the balance") THEN "balance_sync_start"
             ELSE IF Contains(msg_lower, "balance is already synced") THEN "balance_already_synced"
             ELSE IF Contains(msg_lower, "skipping the balance sync") THEN "balance_sync_skip"
             ELSE IF Contains(msg_lower, "transaction {") THEN "transaction"
             ELSE IF Contains(msg_lower, "sending slack notification") THEN "slack_notification"
             ELSE IF Contains(msg_lower, "error") \/ Contains(msg_lower, "failed") THEN "error"
             ELSE IF Contains(msg_lower, "overdraft") THEN "overdraft"
             ELSE "other"

AddCategory(df) ==
    [i \in DOMAIN df.rows |-> Some(categorize_message(df.rows[i].message))]

LowerMessage(df) ==
    [i \in DOMAIN df.rows |->
        IF isna(df.rows[i].message) THEN None ELSE Some(lower(df.rows[i].message[1]))]

\* the assignment, were the message column lower-cased in place as well
categorized_lowering_message(df) ==
    WithColumn(WithColumn(df, "message", LowerMessage(df)), "message_category",
               AddCategory(df))

\* self.parsed_logs["message_category"] = self.parsed_logs["message"].apply(...)
categorized(df) == WithColumn(df, "message_category", AddCategory(df))

\* df[column].value_counts().to_dict(): the values present, each with its count
value_counts(df, column) ==
    LET present == {df.rows[i][column][1] : i \in DOMAIN df.rows}
    IN  [c \in present |->
            Cardinality({i \in DOMAIN df.rows : df.rows[i][column][1] = c})]

\* analysis_results[key] = value
SetResult(results, key, value) == (key :> value) @@ results

categorize_logs ==
    /\ pc = "categorize_logs"
    /\ IF "message" \notin parsed_logs.columns
       THEN /\ error' = Some("KeyError")
            /\ pc' = "failed"
            /\ UNCHANGED <<parsed_logs, analysis_results>>
       ELSE LET df == categorized(parsed_logs)
            IN  /\ parsed_logs' = df
                /\ analysis_results' =
                      SetResult(analysis_results, "category_stats",
                                value_counts(df, "message_category"))
                /\ error' = error
                /\ pc' = "extract_transactions"
    /\ UNCHANGED <<raw_logs, transactions, overdrafts, user_analysis, output>>

-----------------------------------------------------------------------------
(* extract_transactions *)

Scale == 10 ^ FracDigits

Quote == "\""

\* the least of the positions where the pattern matches, 0 when there is
\* none: re.search tries the positions left to right
FirstMatch(hits) == IF hits = {} THEN 0 ELSE Min(hits)

\* re.search(r'"key":"([^"]+)"', msg): group(1) as Some(text), or None
search_quoted(key, msg) ==
    LET prefix == Quote \o key \o Quote \o ":" \o Quote
        Hit(j) == LET e == NotRunEnd(msg, j, {Quote})
                  IN  e >= j /\ StartsAt(msg, e + 1, Quote)
        at == FirstMatch({i \in Occurrences(msg, prefix) : Hit(i + Len(prefix))})
    IN  IF at = 0 THEN None
        ELSE Some(SubSeq(msg, at + Len(prefix),
                         NotRunEnd(msg, at + Len(prefix), {Quote})))

\* re.search(r'"key":([class]+)', msg): group(1) as Some(text), or None
search_number(key, class, msg) ==
    LET prefix == Quote \o key \o Quote \o ":"
        Hit(j) == RunEnd(msg, j, class) >= j
        at == FirstMatch({i \in Occurrences(msg, prefix) : Hit(i + Len(prefix))})
    IN  IF at = 0 THEN None
        ELSE Some(SubSeq(msg, at + Len(prefix),
                         RunEnd(msg, at + Len(prefix), class)))

\* the parts of a text made of digits, "." and "-": sign, integer digits,
\* fraction digits
FloatParts(text) ==
    LET neg == StartsAt(text, 1, "-")
        body == IF neg THEN SubSeq(text, 2, Len(text)) ELSE text
        dot == IndexIn(".", body, 1)
    IN  [neg |-> neg,
         int |-> IF dot = 0 THEN body ELSE SubSeq(body, 1, dot - 1),
         frac |-> IF dot = 0 THEN "" ELSE SubSeq(body, dot + 1, Len(body))]

AllDigits(s) == \A i \in 1..Len(s) : IsDigit(Char(s, i))

\* float(text) raises ValueError unless text is [-]digits[.digits] with a digit
float_raises(text) ==
    LET p == FloatParts(text)
    IN  ~(/\ AllDigits(p.int)
          /\ AllDigits(p.frac)
          /\ Len(p.int) + Len(p.frac) >= 1)

\* float(text), in units of 10^-FracDigits
float(text) ==
    LET p == FloatParts(text)
        magnitude == ToInt(p.int) * Scale
                     + ToInt(SubSeq(PadRight(p.frac, FracDigits), 1, FracDigits))
    IN  IF p.neg THEN 0 - magnitude ELSE magnitude

\* the three numeric captures of one message
NumberCaptures(msg) ==
    [amount |-> search_number("amount", Digits \cup {"."}, msg),
     vat |-> search_number("vat", Digits \cup {"."}, msg),
     userBalance |-> search_number("userBalance", Digits \cup {".", "-"}, msg)]

\* float(match.group(1)) raises for one of the numeric fields of the message
tx_raises(log) ==
    LET n == NumberCaptures(log.message[1])
    IN  \E f \in DOMAIN n : notna(n[f]) /\ float_raises(n[f][1])

ToFloat(capture) == IF isna(capture) THEN None ELSE Some(float(capture[1]))

\* the dict built for one transaction log
tx_data(log) ==
    LET msg == log.message[1]
        n == NumberCaptures(msg)
    IN  [timestamp |-> log.timestamp,
         datetime |-> log.datetime,
         session_id |-> log.session_id,
         id |-> search_quoted("id", msg),
         type |-> search_quoted("type", msg),
         source |-> search_quoted("source", msg),
         action |-> search_quoted("action", msg),
         amount |-> ToFloat(n.amount),
         vat |-> ToFloat(n.vat),
         userBalance |-> ToFloat(n.userBalance),
         userId |-> search_quoted("userId", msg)]

\* the test, were it to look at the id alone
retained_by_id_alone(tx) == notna(tx.id) /\ tx.id[1] # ""

\* `tx_data.get("id") and tx_data.get("amount") is not None`
retained(tx) == (notna(tx.id) /\ tx.id[1] # "") /\ notna(tx.amount)

\* self.parsed_logs[self.parsed_logs["message_category"] == "transaction"]
transaction_logs(df) ==
    SelectSeq(df.rows, LAMBDA log : log.message_category = Some("transaction"))

transactions_data(df) ==
    LET logs == transaction_logs(df)
    IN  SelectSeq([i \in DOMAIN logs |-> tx_data(logs[i])], retained)

\* rows of df whose column equals the value
RowsWhere(df, column, value) ==
    SelectSeq(df.rows, LAMBDA r : r[column] = Some(value))

\* df[column].nunique(): the distinct non-null values
nunique(rows, column) ==
    Cardinality({rows[i][column] : i \in DOMAIN rows} \ {None})

\* rows[column].sum() over a column without nulls
sum(rows, column) == SumSeq([i \in DOMAIN rows |-> rows[i][column][1]])

transaction_stats(txs) ==
    IF ~empty(txs)
    THEN LET credit_txs == RowsWhere(txs, "type", "CREDIT")
             debit_txs == RowsWhere(txs, "type", "DEBIT")
         IN  [total_count |-> Len(txs.rows),
              credit_count |-> Len(credit_txs),
              debit_count |-> Len(debit_txs),
              total_credits |-> IF credit_txs # <<>> THEN sum(credit_txs, "amount") ELSE 0,
              total_debits |-> IF debit_txs # <<>> THEN sum(debit_txs, "amount") ELSE 0,
              unique_users |-> nunique(txs.rows, "userId"),
              unique_sessions |-> nunique(txs.rows, "session_id")]
    ELSE [total_count |-> 0, credit_count |-> 0, debit_count |-> 0,
          total_credits |-> 0, total_debits |-> 0,
          unique_users |-> 0, unique_sessions |-> 0]

extract_transactions ==
    /\ pc = "extract_transactions"
    /\ LET logs == transaction_logs(parsed_logs)
       IN  IF \E i \in DOMAIN logs : tx_raises(logs[i])
           THEN /\ error' = Some("ValueError")
                /\ pc' = "failed"
                /\ UNCHANGED <<transactions, analysis_results>>
           ELSE LET df == DataFrame(transactions_data(parsed_logs))
                IN  /\ transactions' = df
                    /\ analysis_results' =
                          SetResult(analysis_results, "transaction_stats",
                                    transaction_stats(df))
                    /\ error' = error
                    /\ pc' = "detect_overdrafts"
    /\ UNCHANGED <<raw_logs, parsed_logs, overdrafts, user_analysis, output>>

-----------------------------------------------------------------------------
(* detect_overdrafts *)

\* the threshold of `self.transactions["userBalance"] < 10`
LowBalanceLimit == 10

\* column < bound, elementwise: a null never compares true
Below(cell, bound) == notna(cell) /\ cell[1] < bound
AtLeast(cell, bound) == notna(cell) /\ cell[1] >= bound

\* the selection, were it `userBalance <= 0`
negative_balances_or_zero(txs) ==
    SelectSeq(txs.rows, LAMBDA r : notna(r.userBalance) /\ r.userBalance[1] <= 0)

negative_balances(txs) ==
    SelectSeq(txs.rows, LAMBDA r : Below(r.userBalance, 0))

low_balances(txs) ==
    SelectSeq(txs.rows, LAMBDA r : AtLeast(r.userBalance, 0)
                                   /\ Below(r.userBalance, LowBalanceLimit * Scale))

\* a selection of the rows of a table: the columns are kept
Rows(df, rows) == [isNone |-> FALSE, columns |-> df.columns, rows |-> rows]

\* the value detect_overdrafts returns: pd.DataFrame(overdrafts)
overdrafts_of(txs) ==
    IF ~empty(txs) /\ "userBalance" \in txs.columns /\ negative_balances(txs) # <<>>
    THEN Rows(txs, negative_balances(txs))
    ELSE DataFrame(<<>>)

overdraft_stats(txs) ==
    IF ~empty(txs) /\ "userBalance" \in txs.columns
    THEN [negative_balance_count |-> Len(negative_balances(txs)),
          low_balance_count |-> Len(low_balances(txs)),
          at_risk_users |-> IF low_balances(txs) # <<>>
                            THEN nunique(low_balances(txs), "userId")
                            ELSE 0]
    ELSE [negative_balance_count |-> 0, low_balance_count |-> 0, at_risk_users |-> 0]

detect_overdrafts ==
    /\ pc = "detect_overdrafts"
    /\ overdrafts' = overdrafts_of(transactions)
    /\ analysis_results' =
          SetResult(analysis_results, "overdraft_stats", overdraft_stats(transactions))
    /\ pc' = "analyze_user_patterns"
    /\ UNCHANGED <<error, raw_logs, parsed_logs, transactions, user_analysis, output>>

-----------------------------------------------------------------------------
(* analyze_user_patterns *)

RECURSIVE Dedup(_)
\* Series.unique(): the values in order of first appearance
Dedup(s) ==
    IF s = <<>> THEN <<>>
    ELSE LET init == Dedup(SubSeq(s, 1, Len(s) - 1))
             last == s[Len(s)]
         IN  IF last \in Range(init) THEN init ELSE Append(init, last)

\* the values of the column, repeats kept
unique_keeping_repeats(rows, column) == [i \in DOMAIN rows |-> rows[i][column]]

unique(rows, column) == Dedup([i \in DOMAIN rows |-> rows[i][column]])

\* the orders of sort_values("datetime", na_position="first")
sort_orders_na_first(rows) ==
    LET dated == {i \in DOMAIN rows : notna(rows[i].datetime)}
        undated == SelectSeq([i \in DOMAIN rows |-> i],
                             LAMBDA i : isna(rows[i].datetime))
        n == Cardinality(dated)
        ascending == {p \in [1..n -> dated] :
                        /\ \A a, b \in 1..n : a # b => p[a] # p[b]
                        /\ \A a \in 1..(n - 1) :
                              ~DatetimeLess(rows[p[a + 1]].datetime[1],
                                            rows[p[a]].datetime[1])}
    IN  {[k \in 1..Len(rows) |-> rows[(undated \o p)[k]]] : p \in ascending}

\* the orders sort_values("datetime") can leave the rows in: the rows with a
\* datetime ascending, those without one (NaT) after them in their table
\* order (na_position="last"); the default sort is not stable, so rows with
\* equal datetimes come in either order
sort_orders(rows) ==
    LET dated == {i \in DOMAIN rows : notna(rows[i].datetime)}
        undated == SelectSeq([i \in DOMAIN rows |-> i],
                             LAMBDA i : isna(rows[i].datetime))
        n == Cardinality(dated)
        ascending == {p \in [1..n -> dated] :
                        /\ \A a, b \in 1..n : a # b => p[a] # p[b]
                        /\ \A a \in 1..(n - 1) :
                              ~DatetimeLess(rows[p[a + 1]].datetime[1],
                                            rows[p[a]].datetime[1])}
    IN  {[k \in 1..Len(rows) |-> rows[(p \o undated)[k]]] : p \in ascending}

\* Series.min() / Series.max(): the nulls are skipped; None when all are null
min_of(rows, column) ==
    LET present == {rows[i][column][1] : i \in {j \in DOMAIN rows : notna(rows[j][column])}}
    IN  IF present = {} THEN None
        ELSE Some(CHOOSE v \in present : \A w \in present : v <= w)

max_of(rows, column) ==
    LET present == {rows[i][column][1] : i \in {j \in DOMAIN rows : notna(rows[j][column])}}
    IN  IF present = {} THEN None
        ELSE Some(CHOOSE v \in present : \A w \in present : v >= w)

\* the flag, were the test `min_balance <= 0`
overdraft_flag_at_zero(min_balance) == notna(min_balance) /\ min_balance[1] <= 0

\* `user_stats["min_balance"] is not None and user_stats["min_balance"] < 0`
overdraft_flag(min_balance) == notna(min_balance) /\ min_balance[1] < 0

\* the dict built for one user from the user's sorted transactions
user_stats(user_id, user_txs, columns) ==
    LET credits == SelectSeq(user_txs, LAMBDA r : r.type = Some("CREDIT"))
        debits == SelectSeq(user_txs, LAMBDA r : r.type = Some("DEBIT"))
        last == user_txs[Len(user_txs)]
        min_balance == IF "userBalance" \in columns
                       THEN min_of(user_txs, "userBalance") ELSE None
    IN  [user_id |-> user_id,
         transaction_count |-> Some(Len(user_txs)),
         credit_count |-> Some(Len(credits)),
         debit_count |-> Some(Len(debits)),
         total_credits |-> Some(sum(credits, "amount")),
         total_debits |-> Some(sum(debits, "amount")),
         min_balance |-> min_balance,
         max_balance |-> IF "userBalance" \in columns
                         THEN max_of(user_txs, "userBalance") ELSE None,
         current_balance |-> IF "userBalance" \in columns
                             THEN last.userBalance ELSE None,
         first_transaction |-> user_txs[1].timestamp,
         last_transaction |-> last.timestamp,
         overdraft_flag |-> Some(overdraft_flag(min_balance))]

\* the dicts analyze_user_patterns can build for one user
user_stats_choices(txs, user_id) ==
    {user_stats(user_id, user_txs, txs.columns) :
        user_txs \in sort_orders(SelectSeq(txs.rows, LAMBDA r : r.userId = user_id))}

RECURSIVE user_lists(_, _)
\* the lists user_analysis can end as, over the given users
user_lists(txs, users) ==
    IF users = <<>> THEN {<<>>}
    ELSE LET user_id == users[Len(users)]
             before == user_lists(txs, SubSeq(users, 1, Len(users) - 1))
         IN  IF notna(user_id)
             THEN {Append(list, stats) :
                      list \in before, stats \in user_stats_choices(txs, user_id)}
             ELSE before

\* the values analyze_user_patterns can return
user_analyses(txs) ==
    IF ~empty(txs)
    THEN {DataFrame(list) : list \in user_lists(txs, unique(txs.rows, "userId"))}
    ELSE {DataFrame(<<>>)}

analyze_user_patterns ==
    /\ pc = "analyze_user_patterns"
    /\ user_analysis' \in user_analyses(transactions)
    /\ pc' = "export_results"
    /\ UNCHANGED <<error, raw_logs, parsed_logs, transactions, analysis_results,
                   overdrafts, output>>

-----------------------------------------------------------------------------
(* export_results *)

output_prefix == "calo_analysis"

\* the order the category rows are written in (the order of value_counts is
\* not modelled)
Categories ==
    <<"processing_message", "balance_sync_start", "balance_already_synced",
      "balance_sync_skip", "transaction", "slack_notification", "error",
      "overdraft", "other">>

\* the table of Category, Count and Percentage = Count / Count.sum() * 100
category_table(stats) ==
    LET present == SelectSeq(Categories, LAMBDA c : c \in DOMAIN stats)
        total == SumSeq([i \in DOMAIN present |-> stats[present[i]]])
    IN  [isNone |-> FALSE,
         columns |-> {"Category", "Count", "Percentage"},
         rows |-> [i \in DOMAIN present |->
                      [Category |-> Some(present[i]),
                       Count |-> Some(stats[present[i]]),
                       Percentage |-> Some((stats[present[i]] * 100 * Scale) \div total)]]]

\* df.to_csv(os.path.join(OUTPUT_DIR, file)) when `written`
Written(files, written, file, df) ==
    IF written THEN (file :> df) @@ files ELSE files

export_results ==
    /\ pc = "export_results"
    /\ \E users \in user_analyses(transactions) :
          LET negatives == overdrafts_of(transactions)
              f1 == Written(output, ~transactions.isNone /\ ~empty(transactions),
                            output_prefix \o "_transactions.csv", transactions)
              f2 == Written(f1, ~empty(users),
                            output_prefix \o "_user_analysis.csv", users)
              f3 == Written(f2, TRUE, output_prefix \o "_category_stats.csv",
                            category_table(analysis_results["category_stats"]))
              f4 == Written(f3, ~empty(negatives),
                            output_prefix \o "_overdrafts.csv", negatives)
          IN  /\ user_analysis' = users
              /\ overdrafts' = negatives
              /\ analysis_results' =
                    SetResult(analysis_results, "overdraft_stats",
                              overdraft_stats(transactions))
              /\ output' = f4
    /\ pc' = "done"
    /\ UNCHANGED <<error, raw_logs, parsed_logs, transactions>>

-----------------------------------------------------------------------------

Next ==
    \/ load_logs
    \/ parse_all_logs
    \/ categorize_logs
    \/ extract_transactions
    \/ detect_overdrafts
    \/ analyze_user_patterns
    \/ export_results

\* run_complete_analysis on an archive
Spec == Init /\ [][Next]_vars

-----------------------------------------------------------------------------
(* parse_all_logs applied to a raw table of one entry, which may be any     *)
(* text or null                                                             *)

Pieces == {"\t", " ", "m", T1, "\tsess-1\tINFO\tmsg", "\textra"}

RECURSIVE Joined(_, _)
\* the concatenations of at most n elements of a set of strings
Joined(parts, n) ==
    IF n = 0 THEN {""}
    ELSE Joined(parts, n - 1)
         \cup {s \o part : s \in Joined(parts, n - 1), part \in parts}

RawValues == {None} \cup {Some(s) : s \in Joined(Pieces, MaxPieces)}

InitParse ==
    /\ pc = "parse_all_logs"
    /\ error = None
    /\ raw_logs \in {RawFrame(<<v>>) : v \in RawValues}
    /\ parsed_logs = NoneTable
    /\ transactions = NoneTable
    /\ analysis_results = <<>>
    /\ overdrafts = NoneTable
    /\ user_analysis = NoneTable
    /\ output = <<>>

NextParse == parse_all_logs

SpecParse == InitParse /\ [][NextParse]_vars

-----------------------------------------------------------------------------
(* categorize_logs applied to a parsed table of one record, whose message   *)
(* may be any text or null                                                  *)

Phrases ==
    {"Processing message", "Start syncing the balance", "Balance is already synced",
     "skipping the BALANCE sync", "Transaction {", "Sending Slack notification",
     "ERROR", "Failed", "overdraft", "transaction", "ok"}

Messages == {None} \cup {Some(s) : s \in Joined(Phrases, MaxPhrases)}

ParsedFrame(message) ==
    DataFrame(<<[timestamp |-> None, session_id |-> None, message_type |-> None,
                 message |-> message, datetime |-> None]>>)

InitCategorize ==
    /\ pc = "categorize_logs"
    /\ error = None
    /\ raw_logs = NoneTable
    /\ parsed_logs \in {ParsedFrame(m) : m \in Messages}
    /\ transactions = NoneTable
    /\ analysis_results = <<>>
    /\ overdrafts = NoneTable
    /\ user_analysis = NoneTable
    /\ output = <<>>

NextCategorize == categorize_logs

SpecCategorize == InitCategorize /\ [][NextCategorize]_vars

-----------------------------------------------------------------------------
(* Properties *)

Max(S) == CHOOSE i \in S : \A j \in S : i >= j

\* the stages of run_complete_analysis that follow each stage
AfterParse == {"categorize_logs", "extract_transactions", "detect_overdrafts",
               "analyze_user_patterns", "export_results", "done", "failed"}
AfterExtract == {"detect_overdrafts", "analyze_user_patterns", "export_results", "done"}
AfterDetect == {"analyze_user_patterns", "export_results", "done"}
AfterAnalyze == {"export_results", "done"}

(* C1 *)

\* the taxonomy: the rules in priority order, each with its keywords
Rules ==
    <<[keywords |-> {"processing message"}, label |-> "processing_message"],
      [keywords |-> {"start syncing the balance"}, label |-> "balance_sync_start"],
      [keywords |-> {"balance is already synced"}, label |-> "balance_already_synced"],
      [keywords |-> {"skipping the balance sync"}, label |-> "balance_sync_skip"],
      [keywords |-> {"transaction {"}, label |-> "transaction"],
      [keywords |-> {"sending slack notification"}, label |-> "slack_notification"],
      [keywords |-> {"error", "failed"}, label |-> "error"],
      [keywords |-> {"overdraft"}, label |-> "overdraft"]>>

\* keyword k occurs in the text, letter case ignored
OccursIgnoringCase(k, text) ==
    \E i \in 1..(Len(text) - Len(k) + 1) : lower(SubSeq(text, i, i + Len(k) - 1)) = k

MatchingRules(text) ==
    {i \in DOMAIN Rules : \E k \in Rules[i].keywords : OccursIgnoringCase(k, text)}

FirstRuleLabel(msg) ==
    IF isna(msg) THEN "other"
    ELSE IF MatchingRules(msg[1]) = {} THEN "other"
    ELSE Rules[Min(MatchingRules(msg[1]))].label

\* C1: once categorize_logs has run, every record carries the label of the
\* first rule of the taxonomy whose keyword occurs in its message (letter case
\* ignored), and "other" when no rule matches or the message is null; the
\* category is never null.
C1_FirstMatchingRuleWins ==
    "message_category" \in parsed_logs.columns =>
        \A i \in DOMAIN parsed_logs.rows :
            parsed_logs.rows[i].message_category
                = Some(FirstRuleLabel(parsed_logs.rows[i].message))

\* a message that several rules match got the label of the earliest of them
C1_Witness ==
    /\ "message_category" \in parsed_logs.columns
    /\ \E i \in DOMAIN parsed_logs.rows :
          LET row == parsed_logs.rows[i]
          IN  /\ notna(row.message)
              /\ Cardinality(MatchingRules(row.message[1])) >= 2
              /\ row.message_category
                    = Some(Rules[Min(MatchingRules(row.message[1]))].label)

(* C10 *)

\* the text between its first and its last character that is not whitespace
Stripped(text) ==
    LET solid == {i \in 1..Len(text) : Char(text, i) \notin Whitespace}
    IN  IF solid = {} THEN "" ELSE SubSeq(text, Min(solid), Max(solid))

TabsOf(text) == {i \in 1..Len(text) : Char(text, i) = "\t"}

\* the position of the k-th tab
NthTab(text, k) ==
    CHOOSE i \in TabsOf(text) : Cardinality({j \in TabsOf(text) : j <= i}) = k

\* the text between the k-th tab and the next one (or the end); None when
\* there are fewer than k tabs
TabSegment(text, k) ==
    IF Cardinality(TabsOf(text)) < k THEN None
    ELSE LET next == IF Cardinality(TabsOf(text)) > k
                     THEN NthTab(text, k + 1) ELSE Len(text) + 1
         IN  Some(SubSeq(text, NthTab(text, k) + 1, next - 1))

\* the ends e such that text[1..e] reads YYYY-MM-DDThh:mm:ss.f+Z
AnchorEnds(text) ==
    {e \in 22..Len(text) :
        /\ Char(text, e) = "Z"
        /\ \A i \in 1..(e - 1) :
              IF i \in {5, 8} THEN Char(text, i) = "-"
              ELSE IF i = 11 THEN Char(text, i) = "T"
              ELSE IF i \in {14, 17} THEN Char(text, i) = ":"
              ELSE IF i = 20 THEN Char(text, i) = "."
              ELSE Char(text, i) \in Digits}

AnchoredTimestamp(text) ==
    IF AnchorEnds(text) = {} THEN None
    ELSE Some(SubSeq(text, 1, Min(AnchorEnds(text))))

\* the record the parser is to yield for a text
RecordOf(text) ==
    [timestamp |-> AnchoredTimestamp(text),
     session_id |-> TabSegment(text, 1),
     message_type |-> TabSegment(text, 2),
     message |-> TabSegment(text, 3)]

\* the four parsed fields of a row of the parsed table
ParsedFields(row) ==
    [timestamp |-> row.timestamp, session_id |-> row.session_id,
     message_type |-> row.message_type, message |-> row.message]

ParsedRecords == [i \in DOMAIN parsed_logs.rows |-> ParsedFields(parsed_logs.rows[i])]

\* C10 as claimed: an empty or undefined line yields no record; every other
\* line yields the record of the whole line (timestamp anchored at position 0
\* of the line, segments 1 to 3 of the line).
C10_EmptyLineYieldsNothing ==
    (pc # "parse_all_logs" /\ Len(raw_logs.rows) = 1) =>
        LET line == raw_logs.rows[1].raw_log
        IN  IF isna(line) \/ line = Some("")
            THEN ParsedRecords = <<>>
            ELSE ParsedRecords = <<RecordOf(line[1])>>

\* C10 as amended: only an undefined (null) line yields no record; every
\* text, the empty one included, yields without raising the record of the
\* line stripped of its leading and trailing whitespace: timestamp = the
\* anchored match at position 0 of the stripped line (else null), session_id,
\* message_type and message = its tab segments 1, 2 and 3, each null when
\* absent, later segments ignored.
C10_OnlyNullYieldsNothing ==
    (pc # "parse_all_logs" /\ Len(raw_logs.rows) = 1) =>
        LET line == raw_logs.rows[1].raw_log
        IN  IF isna(line)
            THEN ParsedRecords = <<>>
            ELSE ParsedRecords = <<RecordOf(Stripped(line[1]))>>

\* a line with whitespace around it was parsed into a record with a
\* timestamp and a message
C10_Witness ==
    /\ pc # "parse_all_logs"
    /\ Len(raw_logs.rows) = 1
    /\ notna(raw_logs.rows[1].raw_log)
    /\ Stripped(raw_logs.rows[1].raw_log[1]) # raw_logs.rows[1].raw_log[1]
    /\ Len(parsed_logs.rows) = 1
    /\ notna(parsed_logs.rows[1].timestamp)
    /\ notna(parsed_logs.rows[1].message)

-----------------------------------------------------------------------------
(* C2 *)

TransactionCandidates ==
    SelectSeq(parsed_logs.rows, LAMBDA log : log.message_category = Some("transaction"))

\* the id and the amount were both extracted from the candidate's message
BothExtracted(log) == notna(tx_data(log).id) /\ notna(tx_data(log).amount)

\* the rows of every table of transactions there is
TransactionRowsAnywhere ==
    Range(transactions.rows) \cup Range(overdrafts.rows)
    \cup UNION {Range(output[f].rows) :
                  f \in DOMAIN output \cap {output_prefix \o "_transactions.csv",
                                             output_prefix \o "_overdrafts.csv"}}

UserRowCounts ==
    IF user_analysis.isNone THEN 0
    ELSE SumSeq([k \in DOMAIN user_analysis.rows |->
                    user_analysis.rows[k].transaction_count[1]])

\* C2: once extract_transactions has run, the transaction table holds, in
\* order, exactly the candidates from which both id and amount were
\* extracted; a candidate missing either is in no table of transactions and
\* is counted for no user; total_count is the number of rows of the table.
C2_RowIffIdAndAmount ==
    pc \in AfterExtract =>
        LET kept == SelectSeq(TransactionCandidates, BothExtracted)
        IN  /\ transactions.rows = [k \in DOMAIN kept |-> tx_data(kept[k])]
            /\ \A r \in TransactionRowsAnywhere : notna(r.id) /\ notna(r.amount)
            /\ \A k \in DOMAIN TransactionCandidates :
                  ~BothExtracted(TransactionCandidates[k]) =>
                      tx_data(TransactionCandidates[k]) \notin TransactionRowsAnywhere
            /\ pc \in AfterAnalyze =>
                  UserRowCounts = Cardinality({k \in DOMAIN kept :
                                                  notna(tx_data(kept[k]).userId)})
            /\ analysis_results["transaction_stats"].total_count = Len(transactions.rows)

\* the run ended with one candidate in the table and another, which lacks
\* its id, dropped
C2_Witness ==
    /\ pc = "done"
    /\ Len(TransactionCandidates) = 2
    /\ Len(transactions.rows) = 1
    /\ \E k \in DOMAIN TransactionCandidates :
          /\ isna(tx_data(TransactionCandidates[k]).id)
          /\ notna(tx_data(TransactionCandidates[k]).amount)

(* C3 *)

\* C3: a run over an input of zero lines reaches its end without an error,
\* with category_stats empty and every numeric aggregate zero.
C3_EmptyInputCompletes ==
    (~raw_logs.isNone /\ empty(raw_logs) /\ pc \in {"done", "failed"}) =>
        /\ pc = "done"
        /\ error = None
        /\ DOMAIN analysis_results["category_stats"] = {}
        /\ \A f \in DOMAIN analysis_results["transaction_stats"] :
              analysis_results["transaction_stats"][f] = 0
        /\ \A f \in DOMAIN analysis_results["overdraft_stats"] :
              analysis_results["overdraft_stats"][f] = 0

(* C4 *)

\* the raw lines whose timestamp matches the anchor and denotes no date-time
UnconvertibleLines ==
    {i \in DOMAIN raw_logs.rows :
        LET t == AnchoredTimestamp(raw_logs.rows[i].raw_log[1])
        IN  notna(t) /\ ~Convertible(t[1])}

\* C4: on a non-empty input, when some line's timestamp matches the anchor
\* but cannot be converted the run halts in parse_all_logs: no later stage
\* has run and no dataset exists; when there is no such line parse_all_logs
\* completes and every line has its record in the parsed table, a missing
\* anchor or segment being null.
C4_UnconvertibleTimestampHalts ==
    (pc \in AfterParse /\ ~empty(raw_logs)) =>
        IF UnconvertibleLines # {}
        THEN /\ pc = "failed"
             /\ error = Some("ValueError")
             /\ parsed_logs.columns \cap {"datetime", "message_category"} = {}
             /\ transactions.isNone /\ overdrafts.isNone /\ user_analysis.isNone
             /\ DOMAIN analysis_results = {}
             /\ DOMAIN output = {}
        ELSE /\ "datetime" \in parsed_logs.columns
             /\ ParsedRecords =
                   [i \in DOMAIN raw_logs.rows |-> RecordOf(raw_logs.rows[i].raw_log[1])]

\* the run halted on an input of two lines, one of them unconvertible
C4_Witness ==
    /\ pc = "failed"
    /\ Len(raw_logs.rows) = 2
    /\ Cardinality(UnconvertibleLines) = 1
    /\ transactions.isNone

(* C5 *)

Balance(i) == transactions.rows[i].userBalance

NegativeRows == {i \in DOMAIN transactions.rows : notna(Balance(i)) /\ Balance(i)[1] < 0}

LowRows ==
    {i \in DOMAIN transactions.rows :
        notna(Balance(i)) /\ Balance(i)[1] >= 0 /\ Balance(i)[1] < 10 * Scale}

\* the rows outside both bands: no balance, or a balance of 10 or more
OtherRows ==
    {i \in DOMAIN transactions.rows : isna(Balance(i)) \/ Balance(i)[1] >= 10 * Scale}

\* the rows of the transaction table at the given indices, in table order
RowsAt(S) ==
    LET picks == SelectSeq([i \in DOMAIN transactions.rows |-> i], LAMBDA i : i \in S)
    IN  [k \in DOMAIN picks |-> transactions.rows[picks[k]]]

\* C5: once detect_overdrafts has run, the returned set is exactly the
\* transactions with userBalance < 0 and negative_balance_count its size;
\* low_balance_count counts those with 0 <= userBalance < 10; the two counts
\* and the rows without a balance or with 10 or more add up to the table, so
\* the sets are disjoint and hold no null balance; at_risk_users counts the
\* distinct userId among the low-balance rows; on an empty table all are 0.
C5_OverdraftSets ==
    pc \in AfterDetect =>
        LET stats == analysis_results["overdraft_stats"]
        IN  /\ overdrafts.rows = RowsAt(NegativeRows)
            /\ stats.negative_balance_count = Len(overdrafts.rows)
            /\ stats.low_balance_count = Cardinality(LowRows)
            /\ stats.negative_balance_count + stats.low_balance_count
                  + Cardinality(OtherRows) = Len(transactions.rows)
            /\ stats.at_risk_users =
                  Cardinality({transactions.rows[i].userId : i \in LowRows} \ {None})
            /\ empty(transactions) =>
                  /\ stats.negative_balance_count = 0
                  /\ stats.low_balance_count = 0
                  /\ stats.at_risk_users = 0

\* a table with a negative and a low balance went through detect_overdrafts
C5_Witness ==
    /\ pc \in AfterDetect
    /\ NegativeRows # {}
    /\ LowRows # {}
    /\ Len(overdrafts.rows) = 1

(* C6 *)

UserRows(user_id) == SelectSeq(transactions.rows, LAMBDA r : r.userId = user_id)

PermutationsOf(n) == {p \in [1..n -> 1..n] : \A a, b \in 1..n : a # b => p[a] # p[b]}

\* x must come before y: by datetime, a row without one first or last
MustPrecede(x, y, na_first) ==
    IF notna(x.datetime) /\ notna(y.datetime)
    THEN DatetimeLess(x.datetime[1], y.datetime[1])
    ELSE IF na_first THEN isna(x.datetime) /\ notna(y.datetime)
    ELSE notna(x.datetime) /\ isna(y.datetime)

\* the ascending orders of the rows; with na_first = FALSE the rows without a
\* datetime keep their table order
AscendingOrders(rows, na_first) ==
    {p \in PermutationsOf(Len(rows)) :
        \A a, b \in 1..Len(rows) :
            a < b => /\ ~MustPrecede(rows[p[b]], rows[p[a]], na_first)
                     /\ (~na_first /\ isna(rows[p[a]].datetime)
                                   /\ isna(rows[p[b]].datetime)) => p[a] < p[b]}

\* the row of the user table takes its first and last entries from the order
TakenFrom(row, rows, p) ==
    /\ row.current_balance = rows[p[Len(rows)]].userBalance
    /\ row.last_transaction = rows[p[Len(rows)]].timestamp
    /\ row.first_transaction = rows[p[1]].timestamp

\* C6 as claimed: each user's current_balance, last_transaction and
\* first_transaction come from the last / last / first record of the user's
\* transactions by datetime ascending, those without a datetime first.
C6_UndatedSortFirst ==
    pc \in AfterAnalyze =>
        \A k \in DOMAIN user_analysis.rows :
            LET row == user_analysis.rows[k]
                rows == UserRows(row.user_id)
            IN  \E p \in AscendingOrders(rows, TRUE) : TakenFrom(row, rows, p)

\* C6 as amended: they come from the last / last / first record of the user's
\* transactions by datetime ascending, those without a datetime LAST, in
\* table order (equal datetimes in either order); so when a transaction of the
\* user has no datetime, current_balance is the userBalance of the last such
\* transaction, not of the chronologically last one.
C6_UndatedSortLast ==
    pc \in AfterAnalyze =>
        \A k \in DOMAIN user_analysis.rows :
            LET row == user_analysis.rows[k]
                rows == UserRows(row.user_id)
            IN  \E p \in AscendingOrders(rows, FALSE) : TakenFrom(row, rows, p)

\* a user has a dated and an undated transaction with different balances,
\* and the row shows the undated one's
C6_Witness ==
    /\ pc \in AfterAnalyze
    /\ \E k \in DOMAIN user_analysis.rows :
          LET row == user_analysis.rows[k]
              rows == UserRows(row.user_id)
          IN  \E a, b \in DOMAIN rows :
                 /\ isna(rows[a].datetime) /\ notna(rows[b].datetime)
                 /\ rows[a].userBalance # rows[b].userBalance
                 /\ row.current_balance = rows[a].userBalance
                 /\ isna(row.last_transaction)

(* C7 *)

UserBalances(user_id) ==
    {UserRows(user_id)[i].userBalance[1] :
        i \in {j \in DOMAIN UserRows(user_id) : notna(UserRows(user_id)[j].userBalance)}}

\* C7: for every row of the user table, min_balance is the least userBalance
\* of the user's transactions (null when none has one), and overdraft_flag is
\* true iff min_balance < 0, iff one of the user's transactions is in the
\* overdraft set.
C7_FlagIffNegativeMinimum ==
    pc \in AfterAnalyze =>
        \A k \in DOMAIN user_analysis.rows :
            LET row == user_analysis.rows[k]
                balances == UserBalances(row.user_id)
                flagged == row.overdraft_flag = Some(TRUE)
            IN  /\ row.overdraft_flag \in {Some(TRUE), Some(FALSE)}
                /\ row.min_balance = IF balances = {} THEN None ELSE Some(Min(balances))
                /\ flagged <=> (notna(row.min_balance) /\ row.min_balance[1] < 0)
                /\ flagged <=> \E i \in DOMAIN overdrafts.rows :
                                  overdrafts.rows[i].userId = row.user_id

\* a flagged user beside a user whose least balance is zero
C7_Witness ==
    /\ pc \in AfterAnalyze
    /\ \E j, k \in DOMAIN user_analysis.rows :
          /\ user_analysis.rows[j].overdraft_flag = Some(TRUE)
          /\ user_analysis.rows[k].overdraft_flag = Some(FALSE)
          /\ user_analysis.rows[k].min_balance = Some(0)

(* C8 *)

\* C8: the user table has one row for each distinct non-null userId of the
\* transaction table and no other row; its length is unique_users; each
\* row's transaction_count is the number of the user's transactions, with
\* credit_count + debit_count <= transaction_count; the transaction_counts
\* add up to the number of transactions with a userId.
C8_OneRowPerUser ==
    pc \in AfterAnalyze =>
        LET rows == user_analysis.rows
            txs == transactions.rows
        IN  /\ \A j, k \in DOMAIN rows : j # k => rows[j].user_id # rows[k].user_id
            /\ {rows[k].user_id : k \in DOMAIN rows}
                  = {txs[i].userId : i \in DOMAIN txs} \ {None}
            /\ Len(rows) = analysis_results["transaction_stats"].unique_users
            /\ \A k \in DOMAIN rows :
                  /\ rows[k].transaction_count
                        = Some(Cardinality({i \in DOMAIN txs : txs[i].userId = rows[k].user_id}))
                  /\ rows[k].credit_count[1] + rows[k].debit_count[1]
                        <= rows[k].transaction_count[1]
            /\ UserRowCounts = Cardinality({i \in DOMAIN txs : notna(txs[i].userId)})

\* two transactions, one of a user and one without userId: one row
C8_Witness ==
    /\ pc \in AfterAnalyze
    /\ Len(transactions.rows) = 2
    /\ \E i \in DOMAIN transactions.rows : isna(transactions.rows[i].userId)
    /\ Len(user_analysis.rows) = 1
    /\ user_analysis.rows[1].transaction_count = Some(1)

(* C9 *)

Kept(table) == table.isNone \/ table' = table

\* C9 as claimed: no stage changes a table an earlier stage produced: the raw
\* lines, the parsed records and the transactions stay as they are.
C9_NoTableChanges ==
    [][Kept(raw_logs) /\ Kept(parsed_logs) /\ Kept(transactions)]_vars

\* the step adds the message_category column and leaves the rest of the table
CategoryColumnAdded ==
    /\ pc = "categorize_logs"
    /\ parsed_logs'.columns = parsed_logs.columns \cup {"message_category"}
    /\ Len(parsed_logs'.rows) = Len(parsed_logs.rows)
    /\ \A i \in DOMAIN parsed_logs.rows : \A c \in parsed_logs.columns :
          parsed_logs'.rows[i][c] = parsed_logs.rows[i][c]

\* C9 as amended: no stage changes the raw lines or the transaction table
\* once produced (the calls of detect_overdrafts and analyze_user_patterns
\* inside export_results included); the parsed-record table is changed by
\* categorize_logs alone, in place, which adds the message_category column
\* and leaves its rows and other columns as they were.
C9_OnlyCategoryColumnAdded ==
    [][/\ Kept(raw_logs)
       /\ Kept(transactions)
       /\ Kept(parsed_logs) \/ CategoryColumnAdded]_vars

\* export_results has run on a table with an overdraft
C9_Witness ==
    /\ pc = "done"
    /\ ~empty(transactions)
    /\ output_prefix \o "_overdrafts.csv" \in DOMAIN output
    /\ "message_category" \in parsed_logs.columns

====
